---- MODULE Spec2Model ----
(***************************************************************************)
(* Live streaming session of the VITALSYNC dashboard (LiveDashboard        *)
(* component and the Live API helpers of geminiService).                   *)
(*                                                                         *)
(* The component runs on one event loop: every handler (a click, a React   *)
(* effect, a transport callback, a capture callback) runs to completion,   *)
(* so each handler is one action.  React state set inside a handler is     *)
(* committed when the handler returns.  A `.then` callback registered on   *)
(* an already resolved promise runs in the microtask right after the       *)
(* handler, before any other event, and is part of the same action; one    *)
(* registered on a pending promise waits in thenQueue until Resolve.       *)
(*                                                                         *)
(* Every call of connectLive that passes its guard creates a new set of    *)
(* objects (playback context, transport session, and on open the capture   *)
(* context, source node and processor node).  They are numbered 1, 2, ...  *)
(* in creation order; 0 stands for null in the refs.                       *)
(*                                                                         *)
(* Specifications:                                                         *)
(*   Spec       camera, connect / disconnect, transport events, capture    *)
(*   PlaySpec   the same session handlers with inbound messages and the    *)
(*              audio clocks (playback cursor nextStartTimeRef)            *)
(*   FrameSpec  the same session handlers with the video frame effect and  *)
(*              its 500 ms interval                                        *)
(*   SchedSpec  one session from the connect on, audio in both directions  *)
(*   CodecSpec  float32To16BitPCMBase64 and base64ToAudioBuffer applied to *)
(*              every input sample                                         *)
(*   DecodeSpec base64ToAudioBuffer applied to every short packet          *)
(*   LevelSpec  one session, the capture callback on every short buffer    *)
(*   SignalSpec the session handlers with a microphone that picks up a     *)
(*              signal (Spec has a silent one)                             *)
(*   TelemetrySpec  one session with the video frame timer and the         *)
(*              telemetry timer                                            *)
(* Time is counted in units of one buffer length; samples are fractions    *)
(* with 16 fractional bits.                                                *)
(***************************************************************************)
EXTENDS Integers, Sequences, FiniteSets

\* ---- bounds ----
MaxSessions == 2      \* connectLive calls that pass the guard
MaxCamPending == 1    \* getUserMedia requests in flight
MaxTime == 1          \* largest reading of an audio clock, in buffer time units
MaxDur == 2           \* longest decoded buffer, in the same units
MaxCursor == 3        \* largest value of the playback cursor
MaxBytes == 3         \* longest inbound packet, in bytes
MaxAmp == 10          \* largest numerator of a captured sample (1.25 of full scale)
MaxBuf == 2           \* longest captured buffer, in samples
MaxUpdates == 2       \* telemetry updates after the initial values
MaxSample == 65540    \* largest numerator of an input sample (inputs beyond 1.0 included)

Sessions == 1..MaxSessions
NoRef == 0

VARIABLES
  isCameraActive,     \* useState isCameraActive
  stream,             \* useState stream: TRUE when a MediaStream is held
  camPending,         \* getUserMedia promises not yet settled
  isLiveConnected,    \* useState isLiveConnected
  isLiveConnecting,   \* useState isLiveConnecting
  audioLevel,         \* useState audioLevel
  audioContextRef,    \* useRef: playback AudioContext of session k, or 0
  inputSourceRef,     \* useRef: MediaStreamAudioSourceNode of session k, or 0
  processorRef,       \* useRef: ScriptProcessorNode of session k, or 0
  sessionRef,         \* useRef: session promise of session k, or 0
  nextId,             \* number of sessions created so far
  ctx,                \* playback AudioContext (24 kHz) of each session
  inputCtx,           \* capture AudioContext (16 kHz) of each session
  source,             \* capture source node of each session
  processor,          \* capture processor node of each session
  transport,          \* the transport connection of each session
  promise,            \* the session promise returned by connectToLiveSession
  thenQueue,          \* callbacks registered on the still pending promise, in
                      \* registration order; "audio" stands for one or more
                      \* consecutive audio sends
  sentAudio,          \* the handler that ran last has transmitted audio on the session
  nextStartTimeRef,   \* useRef<number>: the playback cursor, one ref for all sessions
  ctxTime,            \* ctx.currentTime of the playback AudioContext of each session
  lastBuf,            \* per session: <<start, duration>> of the buffer scheduled
                      \* last on its playback context, <<>> if none
  frameTimer,         \* the interval of the video frame effect is running
  frameEffectDep,     \* the value of isLiveConnected at the last run of that effect
  sentFrame,          \* the handler that ran last has transmitted a video frame on the session
  frameError,         \* a timer tick has thrown (uncaught TypeError)
  float32,            \* the Float32Array handed to the encoder, as numerators over SampleDen
  base64,             \* the string the encoder returned, as base64 digits
  decoded,            \* the Float32Array the decoder filled, as numerators over 32768
  codecPc,            \* "input", "encoded", "decoded" or "failed"
  bpRef,              \* useRef: the blood pressure object, with the number of the
                      \* telemetry update that stored it (0: the initial value)
  sugarRef,           \* useRef: glucose, with the number of its update
  hrRef,              \* useRef: heart rate, with the number of its update
  frameOverlay,       \* the readings drawn onto the frame captured last, <<>> before
                      \* the first capture
  inputData,          \* the samples the microphone delivers to a capture callback,
                      \* as numerators over LevelDen
  hist,               \* per session: the lifecycle events in the order they took effect
  lastOp              \* "connectIgnored" after a call of connectLive that returned at
                      \* its guard, "other" after any other handler

camVars == <<isCameraActive, stream, camPending>>
telemVars == <<bpRef, sugarRef, hrRef>>
\* the variables no session handler writes, except frameOverlay which the
\* timer tick of the video frame effect writes
codecVars == <<float32, base64, decoded, codecPc, inputData, telemVars, frameOverlay>>
progVars == <<isLiveConnected, isLiveConnecting, audioLevel, audioContextRef, inputSourceRef,
              processorRef, sessionRef, nextId, ctx, inputCtx, source, processor,
              transport, promise, thenQueue, sentAudio, nextStartTimeRef, ctxTime,
              lastBuf, frameTimer, frameEffectDep, sentFrame, frameError, hist>>
\* progVars without the two transmission markers
liveVars == <<isLiveConnected, isLiveConnecting, audioLevel, audioContextRef, inputSourceRef,
              processorRef, sessionRef, nextId, ctx, inputCtx, source, processor,
              transport, promise, thenQueue, nextStartTimeRef, ctxTime, lastBuf,
              frameTimer, frameEffectDep, frameError, hist>>
vars == <<isCameraActive, stream, camPending, isLiveConnected, isLiveConnecting,
          audioLevel, inputData, bpRef, sugarRef, hrRef, frameOverlay,
          audioContextRef, inputSourceRef, processorRef, sessionRef, nextId, ctx,
          inputCtx, source, processor, transport, promise, thenQueue, sentAudio,
          nextStartTimeRef, ctxTime, lastBuf, frameTimer, frameEffectDep, sentFrame,
          frameError, float32, base64, decoded, codecPc, hist, lastOp>>

\* nothing transmitted yet
NoneSent == [k \in Sessions |-> FALSE]

\* The state the session handlers read and write, as one record, at the
\* start of a handler: the handler has transmitted nothing yet.
Prog ==
  [isLiveConnected |-> isLiveConnected, isLiveConnecting |-> isLiveConnecting,
   audioLevel |-> audioLevel,
   audioContextRef |-> audioContextRef, inputSourceRef |-> inputSourceRef,
   processorRef |-> processorRef, sessionRef |-> sessionRef, nextId |-> nextId,
   ctx |-> ctx, inputCtx |-> inputCtx, source |-> source, processor |-> processor,
   transport |-> transport, promise |-> promise, thenQueue |-> thenQueue,
   sentAudio |-> NoneSent, nextStartTimeRef |-> nextStartTimeRef,
   ctxTime |-> ctxTime, lastBuf |-> lastBuf, frameTimer |-> frameTimer,
   frameEffectDep |-> frameEffectDep, sentFrame |-> NoneSent,
   frameError |-> frameError, hist |-> hist]

SetProg(s) ==
  /\ isLiveConnected' = s.isLiveConnected
  /\ isLiveConnecting' = s.isLiveConnecting
  /\ audioLevel' = s.audioLevel
  /\ audioContextRef' = s.audioContextRef
  /\ inputSourceRef' = s.inputSourceRef
  /\ processorRef' = s.processorRef
  /\ sessionRef' = s.sessionRef
  /\ nextId' = s.nextId
  /\ ctx' = s.ctx
  /\ inputCtx' = s.inputCtx
  /\ source' = s.source
  /\ processor' = s.processor
  /\ transport' = s.transport
  /\ promise' = s.promise
  /\ thenQueue' = s.thenQueue
  /\ sentAudio' = s.sentAudio
  /\ nextStartTimeRef' = s.nextStartTimeRef
  /\ ctxTime' = s.ctxTime
  /\ lastBuf' = s.lastBuf
  /\ frameTimer' = s.frameTimer
  /\ frameEffectDep' = s.frameEffectDep
  /\ sentFrame' = s.sentFrame
  /\ frameError' = s.frameError
  /\ hist' = s.hist

Log(s, k, e) == [s EXCEPT !.hist[k] = Append(@, e)]

\* ---- helpers of disconnectLive, one per `if` of the function ----

\* variant of ReleaseProcessor: the ref is not reset to null
ReleaseProcessorKeepRef(s) ==
  IF s.processorRef = NoRef THEN s
  ELSE Log([s EXCEPT !.processor[s.processorRef] = "disconnected"],
           s.processorRef, "processor")

\* processorRef.current.disconnect(); processorRef.current = null
ReleaseProcessor(s) ==
  IF s.processorRef = NoRef THEN s
  ELSE Log([s EXCEPT !.processor[s.processorRef] = "disconnected",
                     !.processorRef = NoRef],
           s.processorRef, "processor")

\* inputSourceRef.current.disconnect(); inputSourceRef.current = null
ReleaseSource(s) ==
  IF s.inputSourceRef = NoRef THEN s
  ELSE Log([s EXCEPT !.source[s.inputSourceRef] = "disconnected",
                     !.inputSourceRef = NoRef],
           s.inputSourceRef, "source")

\* audioContextRef.current.close(); audioContextRef.current = null
ReleasePlayback(s) ==
  IF s.audioContextRef = NoRef THEN s
  ELSE Log([s EXCEPT !.ctx[s.audioContextRef] = "closed",
                     !.audioContextRef = NoRef],
           s.audioContextRef, "playback")

\* session.close() of session k
CloseSession(s, k) ==
  Log([s EXCEPT !.transport[k] = IF @ = "open" THEN "closing" ELSE @], k, "transport")

\* sessionRef.current.then(s => s.close()); sessionRef.current = null
ReleaseSession(s) ==
  IF s.sessionRef = NoRef THEN s
  ELSE LET k == s.sessionRef
           t == [s EXCEPT !.sessionRef = NoRef]
       IN CASE s.promise[k] = "resolved" -> CloseSession(t, k)
            [] s.promise[k] = "pending" -> [t EXCEPT !.thenQueue[k] = Append(@, "close")]
            [] OTHER -> t

\* the sessions whose objects the refs point to
Touched(s) ==
  {s.processorRef, s.inputSourceRef, s.audioContextRef, s.sessionRef} \ {NoRef}

RECURSIVE LogAll(_, _, _)
LogAll(s, ks, e) ==
  IF ks = {} THEN s
  ELSE LET k == CHOOSE x \in ks : \A y \in ks : x <= y
       IN LogAll(Log(s, k, e), ks \ {k}, e)

\* disconnectLive: the state flags are set first and are committed when the
\* handler returns ("closed" in hist, for the sessions the call released).
\* variant of disconnectLive: the audio level is left as it is
disconnectLiveKeepLevel(s) ==
  LET flags == [s EXCEPT !.isLiveConnected = FALSE, !.isLiveConnecting = FALSE]
      released == ReleaseSession(ReleasePlayback(ReleaseSource(ReleaseProcessor(flags))))
  IN LogAll(released, Touched(s), "closed")

disconnectLive(s) ==
  LET flags == [s EXCEPT !.isLiveConnected = FALSE, !.isLiveConnecting = FALSE,
                         !.audioLevel = 0]
      released == ReleaseSession(ReleasePlayback(ReleaseSource(ReleaseProcessor(flags))))
  IN LogAll(released, Touched(s), "closed")


\* connectLive after its guard.  ctxOk = FALSE: the AudioContext constructor
\* throws, the catch block runs and nothing has been created.
connectLive(s, ctxOk) ==
  LET k == s.nextId + 1
  IN IF ~ctxOk THEN [s EXCEPT !.isLiveConnecting = FALSE]
     ELSE [s EXCEPT !.isLiveConnecting = TRUE,
                    !.audioContextRef = k,
                    !.ctx[k] = "running",
                    !.transport[k] = "connecting",
                    !.promise[k] = "pending",
                    !.sessionRef = k,
                    !.nextId = k]

\* variant of connectGuard: the isLiveConnecting test is missing
connectGuardNoConnecting(s, hasStream) ==
  hasStream /\ ~s.isLiveConnected

\* variant of connectGuard: the stream test is missing
connectGuardNoStream(s, hasStream) ==
  ~s.isLiveConnected /\ ~s.isLiveConnecting

\* the guard of connectLive: if (!stream || isLiveConnected || isLiveConnecting) return
connectGuard(s, hasStream) ==
  hasStream /\ ~s.isLiveConnected /\ ~s.isLiveConnecting

\* variant of onOpen: setIsLiveConnected(true) is missing
onOpenUnmarked(s, k) ==
  [s EXCEPT !.isLiveConnecting = FALSE,
            !.inputCtx[k] = "running",
            !.source[k] = "connected",
            !.processor[k] = "connected",
            !.inputSourceRef = k,
            !.processorRef = k,
            !.sessionRef = k,
            !.nextStartTimeRef = s.ctxTime[k]]

\* the onOpen callback of session k
onOpen(s, k) ==
  [s EXCEPT !.isLiveConnected = TRUE,
            !.isLiveConnecting = FALSE,
            !.inputCtx[k] = "running",
            !.source[k] = "connected",
            !.processor[k] = "connected",
            !.inputSourceRef = k,
            !.processorRef = k,
            !.sessionRef = k,
            !.nextStartTimeRef = s.ctxTime[k]]

\* "active" in hist: the open handler of session k has returned with the
\* session marked connected
MarkActive(s, k) ==
  IF s.isLiveConnected THEN Log(s, k, "active") ELSE s

\* session.sendRealtimeInput({media: audio}) on the resolved session k;
\* a send on a connection that is closing or closed transmits nothing
sendAudio(s, k) ==
  IF s.transport[k] = "open"
  THEN [s EXCEPT !.sentAudio[k] = TRUE]
  ELSE s

\* session.sendRealtimeInput({media: image/jpeg}) on the resolved session k
sendFrame(s, k) ==
  IF s.transport[k] = "open"
  THEN [s EXCEPT !.sentFrame[k] = TRUE]
  ELSE s

\* the callbacks waiting on session promise k, run in registration order
RECURSIVE RunThen(_, _, _)
RunThen(s, k, q) ==
  IF q = <<>> THEN s
  ELSE LET t == CASE Head(q) = "close" -> CloseSession(s, k)
                  [] Head(q) = "frame" -> sendFrame(s, k)
                  [] OTHER -> sendAudio(s, k)
       IN RunThen(t, k, Tail(q))

\* the session promise of session k resolves
resolveSession(s, k) ==
  RunThen([s EXCEPT !.promise[k] = "resolved", !.thenQueue[k] = <<>>], k, s.thenQueue[k])

\* the callback registered last on the pending promise is an audio send
AudioLast(q) == q # <<>> /\ q[Len(q)] = "audio"

\* processor.onaudioprocess of session k: sessionPromise.then(session => send)
\* the samples of a capture buffer are numerators over LevelDen
LevelDen == 8

RECURSIVE SumSq(_)
SumSq(f) == IF f = <<>> THEN 0 ELSE Head(f) * Head(f) + SumSq(Tail(f))

\* the integer part of a square root, by bisection
RECURSIVE IsqrtIn(_, _, _)
IsqrtIn(x, lo, hi) ==
  IF lo = hi THEN lo
  ELSE LET mid == (lo + hi + 1) \div 2
       IN IF mid * mid <= x THEN IsqrtIn(x, mid, hi) ELSE IsqrtIn(x, lo, mid - 1)

Isqrt(x) ==
  IF x = 0 THEN 0
  ELSE IF x < 65536 THEN IsqrtIn(x, 1, 255)
  ELSE IsqrtIn(x, 256, 46340)

\* Math.round(rms * 400) with rms = Math.sqrt(sum / inputData.length):
\* round(400 r) = floor((floor(800 r) + 1) / 2), and floor(800 r) is the integer
\* square root of floor(640000 sum / length)
RoundRms400(f) ==
  (Isqrt((640000 * SumSq(f)) \div (Len(f) * LevelDen * LevelDen)) + 1) \div 2

\* variant of levelOf: no cap
levelOfNoCap(f) == RoundRms400(f)

\* the argument of setAudioLevel: Math.min(100, Math.round(rms * 400))
levelOf(f) ==
  LET r == RoundRms400(f)
  IN IF r <= 100 THEN r ELSE 100

\* the callback after setAudioLevel: sessionPromise.then(session => send)
captureSend(s, k) ==
  CASE s.promise[k] = "resolved" -> sendAudio(s, k)
    [] s.promise[k] = "pending" ->
         IF AudioLast(s.thenQueue[k]) THEN s
         ELSE [s EXCEPT !.thenQueue[k] = Append(@, "audio")]
    [] OTHER -> s

onaudioprocess(s, k, data) ==
  [captureSend(s, k) EXCEPT !.audioLevel = levelOf(data)]

\* ---- video frame streaming (useEffect on isLiveConnected) ----

\* the callback registered last on the pending promise is a frame send
FrameLast(q) == q # <<>> /\ q[Len(q)] = "frame"

\* the effect: the cleanup of the previous run clears its interval, then the
\* body starts a new interval if the session is connected, the video element
\* is mounted and sessionRef is set
videoEffect(s, videoMounted) ==
  [s EXCEPT !.frameTimer = s.isLiveConnected /\ videoMounted /\ s.sessionRef # NoRef,
            !.frameEffectDep = s.isLiveConnected]

\* one tick of the interval: `if (!video || !canvas) return`, draw, then
\* sessionRef.current.then(session => send); the call on a null
\* sessionRef.current throws a TypeError
intervalTick(s, videoMounted) ==
  IF ~videoMounted THEN s
  ELSE IF s.sessionRef = NoRef THEN [s EXCEPT !.frameError = TRUE]
  ELSE LET k == s.sessionRef
       IN CASE s.promise[k] = "resolved" -> sendFrame(s, k)
            [] s.promise[k] = "pending" ->
                 IF FrameLast(s.thenQueue[k]) THEN s
                 ELSE [s EXCEPT !.thenQueue[k] = Append(@, "frame")]
            [] OTHER -> s

\* ---- PCM conversion (geminiService) ----

\* A Float32 sample is the fraction n / SampleDen: the samples with 16
\* fractional bits, all of them exact in Float32.
SampleDen == 65536

\* (n / SampleDen) * scale with the fraction dropped (truncation toward zero):
\* the conversion of a number stored into an Int16Array.  The product is
\* formed on the quotient and the remainder of n so that it stays in 32 bits.
ScaleTrunc(n, scale) ==
  LET q == n \div SampleDen
      r == n % SampleDen
      floor == q * scale + (r * scale) \div SampleDen
  IN IF n < 0 /\ (r * scale) % SampleDen # 0 THEN floor + 1 ELSE floor

\* the conversion of an integer stored into an Int16Array: modulo 2^16, signed
ToInt16(x) ==
  LET m == x % 65536
  IN IF m >= 32768 THEN m - 65536 ELSE m

\* Math.max(-1, Math.min(1, x)) on the numerator n of x = n / SampleDen
Clamp(n) ==
  IF n > SampleDen THEN SampleDen
  ELSE IF n < 0 - SampleDen THEN 0 - SampleDen
  ELSE n

\* variant of encodeSample: the sample is not clamped
encodeSampleNoClamp(n) ==
  IF n < 0 THEN ToInt16(ScaleTrunc(n, 32768))
  ELSE ToInt16(ScaleTrunc(n, 32767))

\* the loop body of float32To16BitPCMBase64:
\* int16[i] = s < 0 ? s * 0x8000 : s * 0x7FFF, with s the clamped sample
encodeSample(n) ==
  LET c == Clamp(n)
  IN IF c < 0 THEN ToInt16(ScaleTrunc(c, 32768))
     ELSE ToInt16(ScaleTrunc(c, 32767))

\* the two bytes of an Int16Array element in the Uint8Array view (little-endian)
Int16Bytes(v) ==
  LET u == v % 65536
  IN <<u % 256, u \div 256>>

RECURSIVE SamplesToBytes(_)
SamplesToBytes(f) ==
  IF f = <<>> THEN <<>>
  ELSE Int16Bytes(encodeSample(Head(f))) \o SamplesToBytes(Tail(f))

\* btoa: three bytes give four base64 digits (0..63); 64 stands for "="
Pad == 64

RECURSIVE btoa(_)
btoa(b) ==
  IF Len(b) = 0 THEN <<>>
  ELSE IF Len(b) = 1 THEN <<b[1] \div 4, (b[1] % 4) * 16, Pad, Pad>>
  ELSE IF Len(b) = 2
       THEN <<b[1] \div 4, (b[1] % 4) * 16 + b[2] \div 16, (b[2] % 16) * 4, Pad>>
  ELSE <<b[1] \div 4, (b[1] % 4) * 16 + b[2] \div 16,
         (b[2] % 16) * 4 + b[3] \div 64, b[3] % 64>> \o btoa(SubSeq(b, 4, Len(b)))

\* atob on a string btoa can have produced: four digits give up to three bytes
RECURSIVE atob(_)
atob(d) ==
  IF Len(d) < 4 THEN <<>>
  ELSE LET b1 == d[1] * 4 + d[2] \div 16
           b2 == (d[2] % 16) * 16 + d[3] \div 4
           b3 == (d[3] % 4) * 64 + d[4]
       IN IF d[3] = Pad THEN <<b1>>
          ELSE IF d[4] = Pad THEN <<b1, b2>>
          ELSE <<b1, b2, b3>> \o atob(SubSeq(d, 5, Len(d)))

\* float32To16BitPCMBase64
float32To16BitPCMBase64(f) == btoa(SamplesToBytes(f))

\* new Int16Array(bytes.buffer): element i is made of bytes 2i-1 and 2i
BytesToInt16(b) ==
  [i \in 1..(Len(b) \div 2) |->
     LET u == b[2 * i - 1] + 256 * b[2 * i]
     IN IF u >= 32768 THEN u - 65536 ELSE u]

\* variant of base64ToAudioBuffer: a trailing odd byte is ignored instead of
\* making the Int16Array constructor throw
base64ToAudioBufferFloor(d) ==
  LET bytes == atob(d)
  IN IF Len(bytes) < 2 THEN [ok |-> FALSE, samples |-> <<>>]
     ELSE [ok |-> TRUE, samples |-> BytesToInt16(bytes)]

\* base64ToAudioBuffer: float32[i] = int16[i] / 32768.0, kept as the numerator
\* over 32768.  The Int16Array constructor throws on a byte length that is not
\* a multiple of 2, and ctx.createBuffer(1, float32.length, 24000) throws on a
\* length of 0 frames.
base64ToAudioBuffer(d) ==
  LET bytes == atob(d)
  IN IF Len(bytes) % 2 # 0 THEN [ok |-> FALSE, samples |-> <<>>]
     ELSE IF Len(bytes) = 0 THEN [ok |-> FALSE, samples |-> <<>>]
     ELSE [ok |-> TRUE, samples |-> BytesToInt16(bytes)]

\* ---- playback of inbound audio ----

Max(a, b) == IF a >= b THEN a ELSE b

\* the durations of the buffers base64ToAudioBuffer can return
Durations == 1..MaxDur

\* what a server message carries: no audio part, audio data that does not
\* decode (atob or the Int16Array constructor throws), or audio data that
\* decodes to a buffer of duration d
NoAudio == 0
Malformed == 0 - 1
Payloads == {NoAudio, Malformed} \cup Durations

\* variant of onMessage: the catch block resets the cursor to the clock
onMessageResetOnError(s, k, p) ==
  IF p = NoAudio THEN s
  ELSE IF p = Malformed THEN [s EXCEPT !.nextStartTimeRef = s.ctxTime[k]]
  ELSE LET startTime == Max(s.ctxTime[k], s.nextStartTimeRef)
       IN [s EXCEPT !.lastBuf[k] = <<startTime, p>>,
                    !.nextStartTimeRef = startTime + p]

\* the onMessage callback of session k.  ctx is the playback context the
\* enclosing connectLive call created (an object, so `ctx` is always truthy);
\* the continuation after the await runs before any other event.
onMessage(s, k, p) ==
  IF p = NoAudio THEN s
  ELSE IF p = Malformed THEN s
  ELSE LET startTime == Max(s.ctxTime[k], s.nextStartTimeRef)
       IN [s EXCEPT !.lastBuf[k] = <<startTime, p>>,
                    !.nextStartTimeRef = startTime + p]

\* time passes: the clock of every running playback context advances
advanceClocks(s) ==
  [s EXCEPT !.ctxTime = [k \in Sessions |->
                          IF s.ctx[k] = "running" THEN s.ctxTime[k] + 1 ELSE s.ctxTime[k]]]

\* ---- initial state: the component has mounted, the camera effect has run ----
SessionInit ==
  /\ isCameraActive = TRUE
  /\ stream = FALSE
  /\ camPending = 1
  /\ isLiveConnected = FALSE
  /\ isLiveConnecting = FALSE
  /\ audioLevel = 0
  /\ audioContextRef = NoRef
  /\ inputSourceRef = NoRef
  /\ processorRef = NoRef
  /\ sessionRef = NoRef
  /\ nextId = 0
  /\ ctx = [k \in Sessions |-> "none"]
  /\ inputCtx = [k \in Sessions |-> "none"]
  /\ source = [k \in Sessions |-> "none"]
  /\ processor = [k \in Sessions |-> "none"]
  /\ transport = [k \in Sessions |-> "none"]
  /\ promise = [k \in Sessions |-> "none"]
  /\ thenQueue = [k \in Sessions |-> <<>>]
  /\ sentAudio = NoneSent
  /\ nextStartTimeRef = 0
  /\ ctxTime = [k \in Sessions |-> 0]
  /\ lastBuf = [k \in Sessions |-> <<>>]
  /\ frameTimer = FALSE
  /\ frameEffectDep = FALSE
  /\ sentFrame = NoneSent
  /\ frameError = FALSE
  /\ hist = [k \in Sessions |-> <<>>]
  /\ lastOp = "other"
  /\ bpRef = [upd |-> 0, systolic |-> 120, diastolic |-> 80]
  /\ sugarRef = [upd |-> 0, val |-> 95]
  /\ hrRef = [upd |-> 0, val |-> 72]
  /\ frameOverlay = <<>>

\* no buffer is being converted
\* the capture buffer of a silent microphone, and one of a signal at 1/8 of
\* full scale
Silence == <<0>>

Signal == <<1>>

Init ==
  /\ SessionInit
  /\ inputData = Silence
  /\ float32 = <<>>
  /\ base64 = <<>>
  /\ decoded = <<>>
  /\ codecPc = "input"

\* ---- camera effect (useEffect on isCameraActive, facingMode) ----

\* getUserMedia resolves: setStream(mediaStream)
GetUserMediaOk ==
  /\ camPending > 0
  /\ camPending' = camPending - 1
  /\ stream' = TRUE
  /\ lastOp' = "other"
  /\ UNCHANGED <<isCameraActive, progVars, codecVars>>

\* getUserMedia rejects: setCameraError, setStream(null)
GetUserMediaFail ==
  /\ camPending > 0
  /\ camPending' = camPending - 1
  /\ stream' = FALSE
  /\ lastOp' = "other"
  /\ UNCHANGED <<isCameraActive, progVars, codecVars>>

\* toggleCamera: the effect cleanup calls disconnectLive, then startCamera runs
ToggleCamera ==
  IF isCameraActive
  THEN /\ isCameraActive' = FALSE
       /\ stream' = FALSE
       /\ SetProg(disconnectLive(disconnectLive(Prog)))
       /\ lastOp' = "other"
       /\ UNCHANGED <<camPending, codecVars>>
  ELSE /\ camPending < MaxCamPending
       /\ isCameraActive' = TRUE
       /\ camPending' = camPending + 1
       /\ SetProg(disconnectLive(Prog))
       /\ lastOp' = "other"
       /\ UNCHANGED <<stream, codecVars>>

\* switchCamera (button enabled while the camera is on)
SwitchCamera ==
  /\ isCameraActive
  /\ camPending < MaxCamPending
  /\ camPending' = camPending + 1
  /\ SetProg(disconnectLive(Prog))
  /\ lastOp' = "other"
  /\ UNCHANGED <<isCameraActive, stream, codecVars>>

\* ---- the voice button ----

\* a call of connectLive
ConnectLive ==
  /\ isCameraActive
  /\ IF connectGuard(Prog, stream)
     THEN /\ nextId < MaxSessions
          /\ \E ctxOk \in BOOLEAN :
               /\ SetProg(connectLive(Prog, ctxOk))
               /\ lastOp' = "other"
     ELSE /\ lastOp' = "connectIgnored"
          /\ UNCHANGED progVars
  /\ UNCHANGED <<camVars, codecVars>>

\* a click on the button while it shows "End Voice Session"
UserDisconnect ==
  /\ isCameraActive
  /\ isLiveConnected
  /\ ~isLiveConnecting
  /\ SetProg(disconnectLive(Prog))
  /\ lastOp' = "other"
  /\ UNCHANGED <<camVars, codecVars>>

\* ---- transport events of session k ----

OnOpen(k) ==
  /\ transport[k] = "connecting"
  /\ SetProg(MarkActive(onOpen([Prog EXCEPT !.transport[k] = "open"], k), k))
  /\ lastOp' = "other"
  /\ UNCHANGED <<camVars, codecVars>>

Resolve(k) ==
  /\ transport[k] = "open"
  /\ promise[k] = "pending"
  /\ SetProg(resolveSession(Prog, k))
  /\ lastOp' = "other"
  /\ UNCHANGED <<camVars, codecVars>>

\* the connect promise rejects: no session, no callback
Reject(k) ==
  /\ transport[k] = "connecting"
  /\ promise[k] = "pending"
  /\ SetProg([Prog EXCEPT !.transport[k] = "closed", !.promise[k] = "rejected"])
  /\ lastOp' = "other"
  /\ UNCHANGED <<camVars, codecVars>>

OnClose(k) ==
  /\ transport[k] \in {"connecting", "open", "closing"}
  /\ SetProg(disconnectLive([Prog EXCEPT !.transport[k] = "closed"]))
  /\ lastOp' = "other"
  /\ UNCHANGED <<camVars, codecVars>>

\* an error event of the connection: the connection is unusable from then on
\* and its close event is still to come
OnError(k) ==
  /\ transport[k] \in {"connecting", "open"}
  /\ SetProg(disconnectLive([Prog EXCEPT !.transport[k] = "closing"]))
  /\ lastOp' = "other"
  /\ UNCHANGED <<camVars, codecVars>>

\* ---- capture callback of the processor node of session k ----
AudioProcess(k) ==
  /\ processor[k] = "connected"
  /\ promise[k] \in {"pending", "resolved"}
  /\ SetProg(onaudioprocess(Prog, k, inputData))
  /\ lastOp' = "other"
  /\ UNCHANGED <<camVars, codecVars>>

\* ---- inbound message of session k ----
Message(k, p) ==
  /\ transport[k] = "open"
  /\ p \in Durations => Max(ctxTime[k], nextStartTimeRef) + p <= MaxCursor
  /\ SetProg(onMessage(Prog, k, p))
  /\ lastOp' = IF p = Malformed THEN "decodeFailed" ELSE "other"
  /\ UNCHANGED <<camVars, codecVars>>

\* ---- video frame effect and its interval ----

\* the effect runs after a render in which isLiveConnected has changed
VideoEffect ==
  /\ frameEffectDep # isLiveConnected
  /\ SetProg(videoEffect(Prog, isCameraActive))
  /\ lastOp' = "other"
  /\ UNCHANGED <<camVars, codecVars>>

\* the readings a timer tick draws onto the canvas: bpRef.current,
\* hrRef.current and sugarRef.current, read one after the other
drawOverlay(bp, hr, sugar) == [bp |-> bp, hr |-> hr, sugar |-> sugar]

FrameTick ==
  /\ frameTimer
  /\ SetProg(intervalTick(Prog, isCameraActive))
  /\ frameOverlay' = IF isCameraActive THEN drawOverlay(bpRef, hrRef, sugarRef)
                     ELSE frameOverlay
  /\ lastOp' = "other"
  /\ UNCHANGED <<camVars, float32, base64, decoded, codecPc, inputData, telemVars>>

\* the simulated readings: Math.floor(115 + Math.random() * 20) and so on,
\* the smallest and the largest value of each
Systolics == {115, 134}
Diastolics == {75, 89}
Glucoses == {90, 119}
HeartRates == {60, 89}

\* variant of telemetryTick: hrRef is not stored
telemetryTickNoHr(n, sys, dia, glu, hr) ==
  [bp |-> [upd |-> n, systolic |-> sys, diastolic |-> dia],
   sugar |-> [upd |-> n, val |-> glu],
   hr |-> hrRef]

\* the callback of the telemetry interval, update number n: the three refs
\* are stored one after the other in the same callback
telemetryTick(n, sys, dia, glu, hr) ==
  [bp |-> [upd |-> n, systolic |-> sys, diastolic |-> dia],
   sugar |-> [upd |-> n, val |-> glu],
   hr |-> [upd |-> n, val |-> hr]]

TelemetryTick ==
  /\ isCameraActive
  /\ bpRef.upd < MaxUpdates
  /\ \E sys \in Systolics, dia \in Diastolics, glu \in Glucoses, hr \in HeartRates :
       LET t == telemetryTick(bpRef.upd + 1, sys, dia, glu, hr)
       IN /\ bpRef' = t.bp
          /\ sugarRef' = t.sugar
          /\ hrRef' = t.hr
  /\ lastOp' = "other"
  /\ UNCHANGED <<camVars, progVars, float32, base64, decoded, codecPc, inputData,
                  frameOverlay>>

\* ---- the audio clocks ----
Tick ==
  /\ \E k \in Sessions : ctx[k] = "running"
  /\ \A k \in Sessions : ctx[k] = "running" => ctxTime[k] < MaxTime
  /\ SetProg(advanceClocks(Prog))
  /\ lastOp' = "other"
  /\ UNCHANGED <<camVars, codecVars>>

\* ---- the converters applied to one buffer ----

\* the input buffers: one sample, inside or outside [-1, 1]
Samples == (0 - MaxSample)..MaxSample

Encode ==
  /\ codecPc = "input"
  /\ base64' = float32To16BitPCMBase64(float32)
  /\ codecPc' = "encoded"
  /\ UNCHANGED <<float32, decoded, inputData, telemVars, frameOverlay, camVars,
                  progVars, lastOp>>

Decode ==
  /\ codecPc = "encoded"
  /\ LET r == base64ToAudioBuffer(base64)
     IN /\ decoded' = r.samples
        /\ codecPc' = IF r.ok THEN "decoded" ELSE "failed"
  /\ UNCHANGED <<float32, base64, inputData, telemVars, frameOverlay, camVars,
                  progVars, lastOp>>

SystemNext ==
  \/ GetUserMediaOk
  \/ GetUserMediaFail
  \/ \E k \in Sessions : OnOpen(k)
  \/ \E k \in Sessions : Resolve(k)
  \/ \E k \in Sessions : Reject(k)
  \/ \E k \in Sessions : OnClose(k)
  \/ \E k \in Sessions : OnError(k)
  \/ \E k \in Sessions : AudioProcess(k)

UserNext ==
  \/ ToggleCamera
  \/ SwitchCamera
  \/ ConnectLive
  \/ UserDisconnect

Next == SystemNext \/ UserNext

Spec == Init /\ [][Next]_vars

\* ---- the session with a microphone that picks up a signal ----
SignalInit ==
  /\ SessionInit
  /\ inputData = Signal
  /\ float32 = <<>>
  /\ base64 = <<>>
  /\ decoded = <<>>
  /\ codecPc = "input"

SignalNext ==
  \/ GetUserMediaOk
  \/ SwitchCamera
  \/ ConnectLive
  \/ UserDisconnect
  \/ \E k \in Sessions : OnOpen(k)
  \/ \E k \in Sessions : Resolve(k)
  \/ \E k \in Sessions : OnClose(k)
  \/ \E k \in Sessions : OnError(k)
  \/ \E k \in Sessions : AudioProcess(k)

SignalSpec == SignalInit /\ [][SignalNext]_vars

\* ---- one session with the video frame timer and the telemetry timer ----
TelemetryNext ==
  \/ GetUserMediaOk
  \/ ConnectLive
  \/ \E k \in Sessions : OnOpen(k)
  \/ \E k \in Sessions : Resolve(k)
  \/ VideoEffect
  \/ FrameTick
  \/ TelemetryTick

TelemetrySpec == Init /\ [][TelemetryNext]_vars

\* ---- the session with its playback path: messages arrive, time passes ----
PlayNext ==
  \/ GetUserMediaOk
  \/ SwitchCamera
  \/ ToggleCamera
  \/ ConnectLive
  \/ UserDisconnect
  \/ \E k \in Sessions : OnOpen(k)
  \/ \E k \in Sessions : Resolve(k)
  \/ \E k \in Sessions : OnClose(k)
  \/ \E k \in Sessions : OnError(k)
  \/ \E k \in Sessions, p \in Payloads : Message(k, p)
  \/ Tick

PlaySpec == Init /\ [][PlayNext]_vars

\* ---- the session with its video frame timer ----
FrameNext ==
  \/ GetUserMediaOk
  \/ SwitchCamera
  \/ ToggleCamera
  \/ ConnectLive
  \/ UserDisconnect
  \/ \E k \in Sessions : OnOpen(k)
  \/ \E k \in Sessions : Resolve(k)
  \/ \E k \in Sessions : OnClose(k)
  \/ \E k \in Sessions : OnError(k)
  \/ VideoEffect
  \/ FrameTick

FrameSpec == Init /\ [][FrameNext]_vars

\* ---- the PCM converters on every input sample ----
CodecInit ==
  /\ SessionInit
  /\ inputData = Silence
  /\ float32 \in {<<n>> : n \in Samples}
  /\ base64 = <<>>
  /\ decoded = <<>>
  /\ codecPc = "input"

CodecNext == Encode \/ Decode

CodecSpec == CodecInit /\ [][CodecNext]_vars

\* ---- the decoder on every packet of up to MaxBytes bytes ----
PacketBytes == {0, 1, 128, 255}

Packets == UNION {[1..n -> PacketBytes] : n \in 0..MaxBytes}

DecodeInit ==
  /\ SessionInit
  /\ inputData = Silence
  /\ float32 = <<>>
  /\ base64 \in {btoa(b) : b \in Packets}
  /\ decoded = <<>>
  /\ codecPc = "encoded"

DecodeNext == Decode

DecodeSpec == DecodeInit /\ [][DecodeNext]_vars

\* ---- the capture callback on every buffer of up to MaxBuf samples ----
Amps == (0 - MaxAmp)..MaxAmp

CaptureBuffers == UNION {[1..n -> Amps] : n \in 1..MaxBuf}

LevelInit ==
  /\ SessionInit
  /\ inputData \in CaptureBuffers
  /\ float32 = <<>>
  /\ base64 = <<>>
  /\ decoded = <<>>
  /\ codecPc = "input"

LevelNext ==
  \/ GetUserMediaOk
  \/ ConnectLive
  \/ \E k \in Sessions : OnOpen(k)
  \/ \E k \in Sessions : Resolve(k)
  \/ \E k \in Sessions : AudioProcess(k)

LevelSpec == LevelInit /\ [][LevelNext]_vars

\* ---- the audio paths during one session: from the connect on, captured
\* audio is sent and messages of all three kinds arrive at any clock reading ----
SchedNext ==
  \/ GetUserMediaOk
  \/ ConnectLive
  \/ \E k \in Sessions : OnOpen(k)
  \/ \E k \in Sessions : Resolve(k)
  \/ \E k \in Sessions : AudioProcess(k)
  \/ \E k \in Sessions, p \in Payloads : Message(k, p)
  \/ Tick

SchedSpec == Init /\ [][SchedNext]_vars

TypeOK ==
  /\ isCameraActive \in BOOLEAN /\ stream \in BOOLEAN
  /\ camPending \in 0..MaxCamPending
  /\ isLiveConnected \in BOOLEAN /\ isLiveConnecting \in BOOLEAN
  /\ {audioContextRef, inputSourceRef, processorRef, sessionRef} \subseteq 0..MaxSessions
  /\ nextId \in 0..MaxSessions
  /\ \A k \in Sessions :
       /\ ctx[k] \in {"none", "running", "closed"}
       /\ inputCtx[k] \in {"none", "running"}
       /\ source[k] \in {"none", "connected", "disconnected"}
       /\ processor[k] \in {"none", "connected", "disconnected"}
       /\ transport[k] \in {"none", "connecting", "open", "closing", "closed"}
       /\ promise[k] \in {"none", "pending", "resolved", "rejected"}
       /\ sentAudio[k] \in BOOLEAN
       /\ sentFrame[k] \in BOOLEAN
       /\ ctxTime[k] \in 0..MaxTime
       /\ lastBuf[k] \in {<<>>} \cup ((0..MaxCursor) \X Durations)
  /\ nextStartTimeRef \in 0..MaxCursor
  /\ frameTimer \in BOOLEAN /\ frameEffectDep \in BOOLEAN /\ frameError \in BOOLEAN
  /\ lastOp \in {"other", "connectIgnored", "decodeFailed"}
  /\ audioLevel \in 0..100
  /\ bpRef \in [upd : 0..MaxUpdates, systolic : Systolics \cup {120},
                 diastolic : Diastolics \cup {80}]
  /\ sugarRef \in [upd : 0..MaxUpdates, val : Glucoses \cup {95}]
  /\ hrRef \in [upd : 0..MaxUpdates, val : HeartRates \cup {72}]
  /\ frameOverlay = <<>> \/ DOMAIN frameOverlay = {"bp", "hr", "sugar"}
  /\ inputData \in CaptureBuffers
  /\ codecPc \in {"input", "encoded", "decoded", "failed"}
  /\ \A i \in DOMAIN float32 : float32[i] \in Samples
  /\ \A i \in DOMAIN base64 : base64[i] \in 0..Pad
  /\ \A i \in DOMAIN decoded : decoded[i] \in (0 - 32768)..32767


\* ---- reading the history ----

Count(h, e) == Cardinality({i \in DOMAIN h : h[i] = e})

\* the open handler of session k has marked the session connected
WasActive(k) == \E i \in DOMAIN hist[k] : hist[k][i] = "active"

\* disconnectLive ran on session k while it was still Connecting
Cancelled(k) ==
  \E i \in DOMAIN hist[k] :
    /\ hist[k][i] = "closed"
    /\ \A j \in 1..(i - 1) : hist[k][j] # "active"

Idle == ~isLiveConnected /\ ~isLiveConnecting

NoRefs ==
  /\ processorRef = NoRef
  /\ inputSourceRef = NoRef
  /\ audioContextRef = NoRef
  /\ sessionRef = NoRef

ReleaseEvents == {"processor", "source", "playback", "transport"}

Released(k) ==
  /\ ctx[k] # "running"
  /\ inputCtx[k] # "running"
  /\ source[k] # "connected"
  /\ processor[k] # "connected"
  /\ transport[k] \notin {"connecting", "open"}

\* C2: no exit path leaves resources acquired.  Once the transport of a
\* session has closed and the UI is back to inactive, the playback context,
\* the capture context, the capture source, the capture processor and the
\* transport of that session have all been released.
C2_NoResourceLeft ==
  \A k \in Sessions :
    (transport[k] = "closed" /\ Idle /\ thenQueue[k] = <<>>) => Released(k)

\* ---- C3 ----
\* C3: a connection that disconnectLive cancelled while it was Connecting
\* never becomes Active and never starts audio capture, also when its open
\* event arrives later.
C3_CancelledConnectStaysClosed ==
  \A k \in Sessions :
    Cancelled(k) => ~WasActive(k) /\ processor[k] = "none" /\ source[k] = "none"

Rank(e) ==
  CASE e = "active" -> 0
    [] e = "processor" -> 1
    [] e = "source" -> 1
    [] e = "playback" -> 2
    [] e = "transport" -> 3
    [] OTHER -> 4

\* the events of session k since it last became Active
SinceActive(h) ==
  LET act == {i \in DOMAIN h : h[i] = "active"}
      from == IF act = {} THEN 1 ELSE CHOOSE i \in act : \A j \in act : j <= i
  IN SubSeq(h, from, Len(h))

Ordered(h) == \A i, j \in DOMAIN h : i < j => Rank(h[i]) <= Rank(h[j])

\* C5: in every teardown the steps take effect in the order capture released,
\* playback released, transport closed, state Closed.
C5_TeardownOrder ==
  \A k \in Sessions : Ordered(SinceActive(hist[k]))

\* ---- C6 ----
\* C6: the UI never shows the session as inactive, after it has been Active,
\* while a capture node, the playback context or the transport of that
\* session is still held.
C6_ClosedAfterRelease ==
  Idle =>
    \A k \in Sessions :
      WasActive(k) =>
        /\ processor[k] # "connected"
        /\ source[k] # "connected"
        /\ ctx[k] # "running"
        /\ transport[k] # "open"


\* ---- C7 ----
\* C7: audio is handed to the transport of a session, or queued for it, only
\* after the open handler of that session has marked the session connected.
C7_ActiveBeforeAudio ==
  [][\A k \in Sessions :
       (sentAudio'[k] \/ (AudioLast(thenQueue[k])' /\ ~AudioLast(thenQueue[k])))
         => WasActive(k)]_vars

\* an audio packet of a session that was marked connected has just been transmitted
C7_Witness ==
  \E k \in Sessions : sentAudio[k] /\ WasActive(k)

\* ---- C8 ----
\* C8: a failed transport setup never leaves the session in Connecting: once
\* no callback, promise or device request is outstanding any more, the
\* session is not Connecting.
C8_LeavesConnecting ==
  (~ENABLED SystemNext) => ~isLiveConnecting

ActiveOn(k) ==
  /\ isLiveConnected
  /\ sessionRef = k
  /\ processorRef = k
  /\ inputSourceRef = k
  /\ audioContextRef = k

\* C10: an error or close event of the Active session runs the full teardown:
\* afterwards the UI is inactive, every resource of the session is released
\* (capture nodes, capture context, playback context, transport closed or
\* being closed), and no new session has been created; sessions are created
\* by the connect command only.
C10_ErrorTearsDown ==
  [][/\ \A k \in Sessions :
          ((OnError(k) \/ OnClose(k)) /\ ActiveOn(k)) =>
             /\ Idle' /\ NoRefs'
             /\ processor'[k] = "disconnected"
             /\ source'[k] = "disconnected"
             /\ inputCtx'[k] # "running"
             /\ ctx'[k] = "closed"
             /\ transport'[k] \in {"closing", "closed"}
             /\ nextId' = nextId
     /\ nextId' # nextId => ConnectLive]_vars


\* ---- C11 ----
\* disconnectLive has run on session k since it last became Active
LeftActive(k) == WasActive(k) /\ \E i \in DOMAIN SinceActive(hist[k]) : SinceActive(hist[k])[i] = "closed"

\* C11: once a session has left Active, no capture callback transmits audio
\* on it, no frame timer tick transmits a frame on it and no inbound-message
\* handler schedules a buffer for it.
C11_NoUseAfterActive ==
  [][\A k \in Sessions :
       LeftActive(k) =>
         /\ ~sentAudio'[k]
         /\ ~sentFrame'[k]
         /\ \A d \in Durations : ~Message(k, d)]_vars

\* ---- C12 ----
\* the end of the buffer scheduled last on the playback context of session k
BufEnd(b) == b[1] + b[2]

\* C12: playback never overlaps.  Every buffer that a message of session k
\* schedules on the running playback context of the session starts no
\* earlier than the end of the buffer scheduled before it in that session.
C12_NoOverlap ==
  [][\A k \in Sessions, d \in Durations :
       (Message(k, d) /\ ctx[k] = "running" /\ lastBuf[k] # <<>>) =>
          lastBuf'[k][1] >= BufEnd(lastBuf[k])]_vars

\* ---- C13 ----
\* session k is the current session: the UI shows it connected and the
\* session ref and the playback ref point to its objects
CurrentSession(k) ==
  /\ isLiveConnected
  /\ sessionRef = k
  /\ audioContextRef = k

\* C13: the playback cursor changes only when the session becomes Active
\* (the open handler sets it to the clock of the new playback context) and
\* when the message handler of the current session schedules a buffer; a
\* scheduling step never moves it backwards and leaves it at the start time
\* of the buffer plus its duration.
C13_CursorOwnership ==
  [][nextStartTimeRef' # nextStartTimeRef =>
       \/ \E k \in Sessions :
             /\ OnOpen(k)
             /\ ~Cancelled(k)
             /\ nextStartTimeRef' = ctxTime[k]
       \/ \E k \in Sessions, d \in Durations :
             /\ Message(k, d)
             /\ CurrentSession(k)
             /\ nextStartTimeRef' >= nextStartTimeRef
             /\ nextStartTimeRef' = BufEnd(lastBuf'[k])]_vars

\* ---- C14 ----
\* C14: gapless scheduling.  When an audio message of session k is handled
\* while the clock of the running playback context has not passed the end of
\* the buffer scheduled before it in that session, the new buffer starts
\* exactly at that end (so buffers of one length arriving with no delay
\* start at t0, t0 + d, t0 + 2d, ...).
C14_Gapless ==
  [][\A k \in Sessions, d \in Durations :
       (/\ Message(k, d)
        /\ ctx[k] = "running"
        /\ lastBuf[k] # <<>>
        /\ ctxTime[k] <= BufEnd(lastBuf[k])) =>
          lastBuf'[k][1] = BufEnd(lastBuf[k])]_vars

\* ---- C15 ----
\* C15: a packet whose decoding fails is dropped: the handler schedules
\* nothing and leaves the cursor and every other part of the session state
\* as they were, so the packets before and after it are scheduled as if it
\* had never arrived.
C15_MalformedDropped ==
  [][\A k \in Sessions :
       Message(k, Malformed) => (UNCHANGED liveVars /\ sentAudio' = NoneSent /\ sentFrame' = NoneSent)]_vars

\* a malformed packet has just been handled in a session that has a buffer
\* scheduled ahead of the clock
C15_Witness ==
  /\ lastOp = "decodeFailed"
  /\ \E k \in Sessions :
       /\ transport[k] = "open"
       /\ lastBuf[k] # <<>>
       /\ nextStartTimeRef = BufEnd(lastBuf[k])
       /\ nextStartTimeRef > ctxTime[k]

\* ---- C16 ----
\* session k was Active, disconnectLive has torn it down and a later
\* connectLive has created a new session
PriorSession(k) == LeftActive(k) /\ nextId > k

\* C16: after a disconnect followed by a reconnect, a message that the prior
\* session delivers late schedules no buffer and leaves the cursor, which the
\* new session uses, as it was.
C16_NoStalePlayback ==
  [][\A k \in Sessions, d \in Durations :
       (Message(k, d) /\ PriorSession(k)) =>
          /\ lastBuf'[k] = lastBuf[k]
          /\ nextStartTimeRef' = nextStartTimeRef]_vars

\* ---- C17 ----
\* session k is Active and its transport handle is ready
ActiveReady(k) ==
  /\ isLiveConnected
  /\ sessionRef = k
  /\ promise[k] = "resolved"

\* C17: a capture callback that fires while its session is not Active, or
\* while the transport handle of the session is not ready yet, transmits
\* nothing and queues nothing.
C17_CaptureDropsWhenInactive ==
  [][\A k \in Sessions :
       (AudioProcess(k) /\ ~ActiveReady(k)) =>
          /\ thenQueue'[k] = thenQueue[k]
          /\ ~sentAudio'[k]]_vars

\* ---- C18 ----
\* C18: a frame timer tick that fires while no session is Active (the UI is
\* not connected or the session ref has been cleared) skips silently: it
\* raises no error, transmits no frame and queues none.
C18_TickSkipsSilently ==
  [][(FrameTick /\ ~(isLiveConnected /\ sessionRef # NoRef)) =>
       /\ frameError' = frameError
       /\ sentFrame' = NoneSent
       /\ thenQueue' = thenQueue]_vars

\* ---- C19 ----
\* input steps of size 1 / SampleDen in one quantization step 1 / 32768
Fine == SampleDen \div 32768

\* |a|
Abs(a) == IF a >= 0 THEN a ELSE 0 - a

\* C19: for every sample s in [-1, 1], the value decoded from the encoding
\* of s differs from s by at most one quantization step, 1 / 32768.
C19_RoundTrip ==
  (codecPc = "decoded" /\ Abs(float32[1]) <= SampleDen) =>
     /\ Len(decoded) = 1
     /\ Abs(decoded[1] * Fine - float32[1]) <= Fine

\* ---- C20 ----
\* C20: the encoder clamps every input sample to [-1, 1], also inputs outside
\* that range, and then scales: the encoded value of a negative sample c is
\* c * 32768 and that of a non-negative sample is c * 32767, fraction dropped.
\* So the value lies in [-32768, 32767] with the sign of the sample (no
\* wrap-around), every input <= -1 gives -32768, every input >= 1 gives
\* 32767 and 0 gives 0.
C20_ClampAndScale ==
  codecPc = "decoded" =>
    LET n == float32[1]
        c == IF n > SampleDen THEN SampleDen
             ELSE IF n < 0 - SampleDen THEN 0 - SampleDen ELSE n
        v == decoded[1]
    IN /\ v \in (0 - 32768)..32767
       /\ c < 0 => /\ v <= 0
                   /\ (0 - c) - (0 - v) * Fine \in 0..(Fine - 1)
       /\ c >= 0 => /\ v >= 0
                    /\ c * 32767 - v * SampleDen \in 0..(SampleDen - 1)
       /\ n <= 0 - SampleDen => v = 0 - 32768
       /\ n >= SampleDen => v = 32767
       /\ n = 0 => v = 0

\* a sample above 1.0 has been encoded and decoded: it came out as 32767
C20_Witness ==
  /\ codecPc = "decoded"
  /\ float32[1] > SampleDen
  /\ decoded[1] = 32767

\* ---- C21 ----
\* the byte length of a base64 string, from its digits and its padding
ByteLen(d) == 3 * (Len(d) \div 4) - Cardinality({i \in 1..Len(d) : d[i] = Pad})

DecodeDone == codecPc \in {"decoded", "failed"}

\* C21 as stated: decoding fails, with no audio buffer, whenever the byte length
\* of the packet is odd, and for every even byte length it succeeds with exactly
\* length / 2 samples.
C21_EveryEvenLength ==
  DecodeDone =>
    IF ByteLen(base64) % 2 # 0
    THEN codecPc = "failed" /\ decoded = <<>>
    ELSE codecPc = "decoded" /\ Len(decoded) = ByteLen(base64) \div 2

\* C21 amended: decoding fails, with no audio buffer, whenever the byte length
\* is odd or zero, and for every even byte length of at least 2 it succeeds
\* with exactly length / 2 samples.
C21_OddOrEmptyFails ==
  DecodeDone =>
    IF ByteLen(base64) % 2 # 0 \/ ByteLen(base64) = 0
    THEN codecPc = "failed" /\ decoded = <<>>
    ELSE codecPc = "decoded" /\ Len(decoded) = ByteLen(base64) \div 2

C21_Witness ==
  /\ codecPc = "failed"
  /\ ByteLen(base64) = 3
  /\ decoded = <<>>

\* ---- C22 ----
\* the published level l is 400 times the rms of the buffer f rounded to the
\* nearest integer, or 100 when that is 100 or more: stated on the squares,
\* (2l - 1)^2 <= 640000 sum / length < (2l + 1)^2
Scaled(f) == 640000 * SumSq(f)

Unit(f) == Len(f) * LevelDen * LevelDen

WithinHalf(l, f) ==
  /\ l > 0 => (2 * l - 1) * (2 * l - 1) * Unit(f) <= Scaled(f)
  /\ Scaled(f) < (2 * l + 1) * (2 * l + 1) * Unit(f)

CappedAfterScaling(l, f) ==
  IF l = 100 THEN 199 * 199 * Unit(f) <= Scaled(f) ELSE WithinHalf(l, f)

\* the rms capped at 100 and scaled by 400 afterwards
CappedBeforeScaling(l, f) ==
  IF SumSq(f) >= 10000 * Unit(f) THEN l = 40000 ELSE WithinHalf(l, f)

C23_DeliveryOrder ==
  [][\A k \in Sessions, p \in Durations :
       (Message(k, p) /\ lastBuf[k] # <<>>) => lastBuf'[k][1] >= lastBuf[k][1]]_vars

\* ---- C24 ----
\* C24: the open handler sets the playback cursor to the current time of the
\* session's playback clock, and the first packet of every session starts at
\* the larger of the current clock and the clock at activation, which is the
\* current clock since a clock never runs backwards: never at a time left
\* by another session.
C24_FirstPacketAtClock ==
  [][\A k \in Sessions :
       /\ OnOpen(k) => nextStartTimeRef' = ctxTime[k]
       /\ \A d \in Durations :
            (Message(k, d) /\ lastBuf[k] = <<>>) => lastBuf'[k][1] = ctxTime[k]]_vars

\* ---- C25 ----
\* a frame captured by a timer tick waits on the session promise of session k
FrameWaiting(k) == \E i \in DOMAIN thenQueue[k] : thenQueue[k][i] = "frame"

\* C25: no frame queue is maintained: a timer tick hands the frame it captured
\* to the transport at once, so that after a tick no captured frame is left
\* waiting, whatever the readiness of the transport.
C25_NoFrameBacklog ==
  [][FrameTick => \A k \in Sessions : ~FrameWaiting(k)']_vars

\* ---- C26 ----
\* session k has been torn down by disconnectLive
TornDown(k) == \E i \in DOMAIN hist[k] : hist[k][i] = "closed"

\* C26: a close or error event of a session that was torn down, delivered after
\* a later connect has started, leaves the connection state and the resources
\* of the newer session as they are.
C26_StaleCloseHarmless ==
  [][\A k \in Sessions :
       ((OnClose(k) \/ OnError(k)) /\ TornDown(k) /\ nextId > k) =>
          /\ UNCHANGED <<isLiveConnected, isLiveConnecting, audioContextRef,
                         inputSourceRef, processorRef, sessionRef>>
          /\ \A j \in (k + 1)..nextId :
               /\ ctx'[j] = ctx[j]
               /\ inputCtx'[j] = inputCtx[j]
               /\ source'[j] = source[j]
               /\ processor'[j] = processor[j]
               /\ transport'[j] = transport[j]
               /\ thenQueue'[j] = thenQueue[j]]_vars

\* ---- C27 ----
\* C27: whenever isLiveConnected is true, the session handle and the playback
\* audio context are present: sessionRef and audioContextRef are not null and
\* the context audioContextRef holds is not closed.
C27_ConnectedHasResources ==
  isLiveConnected =>
    /\ sessionRef # NoRef
    /\ audioContextRef # NoRef
    /\ ctx[audioContextRef] = "running"

\* ---- C28 ----
\* C28: isLiveConnecting and isLiveConnected are never both true; in every
\* reachable state a connect passes its guard only when the state is not
\* connected, the open handler sets isLiveConnected and clears
\* isLiveConnecting together, and disconnectLive clears both and sets the
\* audio level to 0.
C28_FlagsExclusive ==
  /\ ~(isLiveConnecting /\ isLiveConnected)
  /\ connectGuard(Prog, stream) =>
       /\ ~isLiveConnected
       /\ \A ctxOk \in BOOLEAN : ~connectLive(Prog, ctxOk).isLiveConnected
  /\ \A k \in Sessions :
       LET o == onOpen(Prog, k)
       IN o.isLiveConnected /\ ~o.isLiveConnecting
  /\ LET d == disconnectLive(Prog)
     IN ~d.isLiveConnected /\ ~d.isLiveConnecting /\ d.audioLevel = 0

\* disconnectLive has torn down an active session whose capture callback had
\* published a level
C28_Witness ==
  /\ Idle
  /\ audioLevel = 0
  /\ inputData = Signal
  /\ \E k \in Sessions : LeftActive(k) /\ processor[k] = "disconnected"

\* ---- C29 ----
\* C29: turning the camera off or switching the facing mode tears the live
\* session down: after either action the session is neither connecting nor
\* active, and a session that was torn down is not active when the stream of
\* the new camera configuration is delivered.
C29_CameraChangeTearsDown ==
  [][/\ ((ToggleCamera \/ SwitchCamera) /\ ~Idle) => (Idle' /\ NoRefs')
     /\ GetUserMediaOk =>
          \A k \in Sessions : TornDown(k) => ~(isLiveConnected /\ sessionRef = k)]_vars

\* ---- C30 ----
\* the readings of an overlay were all stored by the same telemetry update
SameUpdate(o) == o.bp.upd = o.hr.upd /\ o.hr.upd = o.sugar.upd

\* C30: the systolic, diastolic, heart-rate and glucose values drawn onto a
\* frame all come from the same telemetry update, the one stored last before
\* the frame tick, whatever the interleaving of telemetry ticks and frame
\* ticks, and a frame tick leaves the telemetry cells as they are.
C30_ConsistentSnapshot ==
  [][FrameTick =>
       /\ UNCHANGED telemVars
       /\ frameOverlay' # <<>> =>
            /\ SameUpdate(frameOverlay')
            /\ frameOverlay'.bp = bpRef
            /\ frameOverlay'.hr = hrRef
            /\ frameOverlay'.sugar = sugarRef]_vars

\* a frame drawn after the second telemetry update has been transmitted
C30_Witness ==
  /\ frameOverlay # <<>>
  /\ frameOverlay.hr.upd = 2
  /\ \E k \in Sessions : sentFrame[k]

======================================================================
